---- MODULE Spec2Model ----
(***************************************************************************)
(* Model of the authentik operator's reconciliation core:                  *)
(*   - resources/authentik/deployment.rs : build_env, build, reconcile     *)
(*   - akapi/flow/delete.rs, akapi/stages/delete.rs : DeleteFlow/Stage     *)
(*   - akapi/user.rs : CreateServiceAccount                                *)
(* Option<T> is modelled as a sequence: None == <<>>, Some(x) == <<x>>.     *)
(***************************************************************************)
EXTENDS Integers, Sequences, FiniteSets, TLC

VARIABLES
    obj,        \* the crd::Authentik object handed to reconcile
    pc,         \* position of the reconcile task
    result,     \* outcome of the current reconcile run
    probed,     \* result of get_opt in the current run
    cluster,    \* the Deployment stored in the cluster (Option)
    log,        \* cluster calls issued, tagged with the run that issued them
    run,        \* number of the current reconcile invocation
    extWrites,  \* writes to the Deployment by others than the operator
    afterFirst, \* cluster state right after the first successful run (Option)
    env,        \* output of build_env (Environment Assembler runs)
    envDone,    \* whether build_env has run
    flows,      \* flow slugs existing on the authentik server
    stages,     \* stage slugs existing on the authentik server
    accounts,   \* service accounts existing on the authentik server
    requests,   \* HTTP requests sent by the last route invocation
    last,       \* the last route invocation and what its send returned
    achieved    \* <<route, argument>> pairs whose send has returned Ok

vars == <<obj, pc, result, probed, cluster, log, run, extWrites, afterFirst,
          env, envDone, flows, stages, accounts, requests, last, achieved>>

reconcileVars == <<pc, result, probed, cluster, log, run, extWrites, afterFirst>>
envVars == <<env, envDone>>
apiVars == <<flows, stages, accounts, requests, last, achieved>>

\* Bounds of the model.
MaxRuns == 3
MaxExtWrites == 2

None == <<>>
Some(x) == <<x>>
IsSome(o) == o # <<>>
Unwrap(o) == o[1]

\* bool::to_string
BoolToString(b) == IF b THEN "true" ELSE "false"

----------------------------------------------------------------------------
(* Inputs: the instance specs reconcile and build_env are run on.          *)

\* serde_json::to_string(&obj.footer_links)
FooterLinksToJson(links) ==
    IF links = <<>> THEN "[]"
    ELSE "[{\"name\":\"" \o links[1].name \o "\",\"href\":\"" \o links[1].href \o "\"}]"

Smtp == [host |-> "mail", port |-> 25, from |-> "ak@example.org",
         username |-> "mailer", password |-> "mailpw",
         use_tls |-> TRUE, use_ssl |-> FALSE, timeout |-> 10]

\* JSON values a pull policy serialises to: a string, or (the crd's type is
\* not fixed by deployment.rs) a value of another JSON kind.
PullPolicies == {<<"string", "IfNotPresent">>, <<"number", "1">>}

AuthentikSpecs ==
    [image : [repository : {"ghcr.io/goauthentik/server"}, tag : {"2022.7.3"},
              pull_policy : PullPolicies],
     secret_key : {None, Some("sk")},
     footer_links : {<<>>, <<[name |-> "docs", href |-> "https://d"]>>},
     log_level : {None, Some("debug")},
     postgres : [host : {"pg"}, port : {5432}, database : {"authentik"},
                 username : {"ak"}, password : {"plain"},
                 password_secret : {None, Some("pg-secret")},
                 password_secret_key : {None, Some("pw")}],
     redis : [host : {"redis"}, port : {6379}, password : {None, Some("rpw")}],
     smtp : {None, Some(Smtp)}]

\* The specs the reconcile runs are explored on.
ReconcileSpecs ==
    {s \in AuthentikSpecs :
        /\ s.footer_links = <<>>
        /\ s.log_level = None
        /\ s.redis.password = None
        /\ s.smtp = None
        /\ IsSome(s.postgres.password_secret) = IsSome(s.postgres.password_secret_key)
        /\ s.secret_key = Some("sk")}

----------------------------------------------------------------------------
(* Environment Assembler: build_env, build_env_smtp.                       *)

EnvVar(n, v, vf) == [name |-> n, value |-> v, value_from |-> vf]

Literal(n, v) == EnvVar(n, Some(v), None)

SecretKeyRef(secret, key) ==
    [config_map_key_ref |-> None, field_ref |-> None, resource_field_ref |-> None,
     secret_key_ref |-> Some([key |-> key, name |-> Some(secret),
                              optional |-> Some(FALSE)])]

build_env_smtp(o) ==
    IF o = None THEN <<>>
    ELSE LET s == Unwrap(o) IN
         << Literal("AUTHENTIK_EMAIL__HOST", s.host),
            Literal("AUTHENTIK_EMAIL__PORT", ToString(s.port)),
            Literal("AUTHENTIK_EMAIL__FROM", s.from),
            Literal("AUTHENTIK_EMAIL__USERNAME", s.username),
            Literal("AUTHENTIK_EMAIL__PASSWORD", s.password),
            Literal("AUTHENTIK_EMAIL__USE_TLS", BoolToString(s.use_tls)),
            Literal("AUTHENTIK_EMAIL__USE_SSL", BoolToString(s.use_ssl)),
            Literal("AUTHENTIK_EMAIL__TIMEOUT", ToString(s.timeout)) >>

\* Option::zip
Zip(a, b) == IF IsSome(a) /\ IsSome(b) THEN Some(<<Unwrap(a), Unwrap(b)>>) ELSE None

\* A plausible slip: Option::or in place of Option::zip.
PasswordSecretEither(pg) ==
    IF IsSome(pg.password_secret) \/ IsSome(pg.password_secret_key)
    THEN Some(<<IF IsSome(pg.password_secret) THEN Unwrap(pg.password_secret) ELSE "",
                IF IsSome(pg.password_secret_key) THEN Unwrap(pg.password_secret_key) ELSE "">>)
    ELSE None

PasswordSecret(pg) == Zip(pg.password_secret, pg.password_secret_key)

FixedEnv(s) ==
    << EnvVar("AUTHENTIK_SECRET_KEY", s.secret_key, None),
       Literal("AUTHENTIK_FOOTER_LINKS", FooterLinksToJson(s.footer_links)),
       Literal("AUTHENTIK_DISABLE_STARTUP_ANALYTICS", "true"),
       Literal("AUTHENTIK_ERROR_REPORTING__ENABLED", "false"),
       Literal("AUTHENTIK_POSTGRESQL__HOST", s.postgres.host),
       Literal("AUTHENTIK_POSTGRESQL__PORT", ToString(s.postgres.port)),
       Literal("AUTHENTIK_POSTGRESQL__NAME", s.postgres.database),
       Literal("AUTHENTIK_POSTGRESQL__USER", s.postgres.username),
       Literal("AUTHENTIK_REDIS__HOST", s.redis.host),
       Literal("AUTHENTIK_REDIS__PORT", ToString(s.redis.port)) >>

LogLevelEnv(s) ==
    IF IsSome(s.log_level)
    THEN << Literal("AUTHENTIK_LOG_LEVEL", Unwrap(s.log_level)) >>
    ELSE <<>>

PostgresPasswordEnv(s) ==
    LET sk == PasswordSecret(s.postgres) IN
    IF IsSome(sk)
    THEN << EnvVar("AUTHENTIK_POSTGRESQL__PASSWORD", None,
                   Some(SecretKeyRef(Unwrap(sk)[1], Unwrap(sk)[2]))) >>
    ELSE << Literal("AUTHENTIK_POSTGRESQL__PASSWORD", s.postgres.password) >>

RedisPasswordEnv(s) ==
    IF IsSome(s.redis.password)
    THEN << Literal("AUTHENTIK_REDIS__PASSWORD", Unwrap(s.redis.password)) >>
    ELSE <<>>

build_env(s) ==
    FixedEnv(s) \o LogLevelEnv(s) \o PostgresPasswordEnv(s) \o RedisPasswordEnv(s)
        \o build_env_smtp(s.smtp)

----------------------------------------------------------------------------
(* Desired-State Builder: get_matching_labels, get_labels, build.          *)

get_matching_labels(instance) ==
    [k \in {"app.kubernetes.io/name", "app.kubernetes.io/component",
            "app.kubernetes.io/instance"} |->
        CASE k = "app.kubernetes.io/name" -> "authentik"
          [] k = "app.kubernetes.io/component" -> "server"
          [] OTHER -> instance]

\* BTreeMap::insert: the inserted key wins over an existing one.
get_labels(instance, version) ==
    ("app.kubernetes.io/version" :> version)
        @@ ("app.kubernetes.io/created-by" :> "authentik-operator")
        @@ get_matching_labels(instance)

ResourceName(instance) == "authentik-" \o instance

Container(name, role, o, ports) ==
    [name |-> "authentik-" \o name \o "-" \o role,
     image |-> o.spec.image.repository \o ":" \o o.spec.image.tag,
     imagePullPolicy |-> o.spec.image.pull_policy,
     args |-> <<role>>,
     ports |-> ports,
     env |-> build_env(o.spec)]

\* The json!({...}) value of build.
DeploymentJson(name, o) ==
    [apiVersion |-> "apps/v1",
     kind |-> "Deployment",
     metadata |->
        [name |-> ResourceName(name),
         labels |-> get_labels(name, o.spec.image.tag),
         ownerReferences |->
            << [apiVersion |-> "ak.dany.dev/v1", kind |-> "Authentik",
                name |-> name, uid |-> Unwrap(o.uid), controller |-> TRUE] >>],
     spec |->
        [replicas |-> 1,
         selector |-> [matchLabels |-> get_matching_labels(name)],
         template |->
            [metadata |-> [labels |-> get_labels(name, o.spec.image.tag)],
             spec |->
                [containers |->
                    << Container(name, "server", o,
                           << [name |-> "http", containerPort |-> 9000,
                               protocol |-> "TCP"] >>),
                       Container(name, "worker", o, <<>>) >>]]]]

\* serde_json::from_value::<Deployment>: imagePullPolicy is a string field of
\* the typed Deployment; a value of another JSON kind there is a shape mismatch.
from_value(json) ==
    LET cs == json.spec.template.spec.containers IN
    IF \A i \in DOMAIN cs : cs[i].imagePullPolicy[1] = "string"
    THEN [kind |-> "Ok", val |-> Some(json)]
    ELSE [kind |-> "Err", val |-> None]

\* build: the expect on obj.uid() aborts the task; the ? on from_value
\* returns the assembly error.
build(name, o) ==
    IF o.uid = None THEN [kind |-> "Panic", val |-> None]
    ELSE from_value(DeploymentJson(name, o))

----------------------------------------------------------------------------
(* The cluster: one Deployment slot per (namespace, name).                 *)

\* A Deployment of the same name written by somebody else.
ForeignDeployment(name) ==
    [apiVersion |-> "apps/v1",
     kind |-> "Deployment",
     metadata |-> [name |-> name, labels |-> ("app" :> "manual"),
                   ownerReferences |-> <<>>],
     spec |-> [replicas |-> 3,
               selector |-> [matchLabels |-> ("app" :> "manual")],
               template |-> [metadata |-> [labels |-> ("app" :> "manual")],
                             spec |-> [containers |-> <<>>]]]]

\* Api::create on an empty slot.
Created(m) == Some([manifest |-> m, foreign |-> {}])

\* Api::patch with Patch::Apply and force: the applied fields take the
\* manifest's values whoever owned them; fields the manifest does not set stay.
Applied(slot, m) ==
    Some([manifest |-> m,
          foreign |-> IF slot = None THEN {} ELSE Unwrap(slot).foreign])

PatchParamsApply == [field_manager |-> Some("authentik.ak-operator"), force |-> TRUE]
PostParamsDefault == [field_manager |-> None, force |-> FALSE]

----------------------------------------------------------------------------
(* Apply Reconciler: reconcile, split at its suspension points.            *)

Running == [kind |-> "Running", err |-> "", present |-> FALSE]
Returned(kind, err, slot) == [kind |-> kind, err |-> err, present |-> IsSome(slot)]

\* A slip: the missing name is defaulted instead of rejected.
StartCheckDefaultName(o) ==
    IF IsSome(o.name) /\ o.namespace = None THEN "NoNamespace" ELSE "Ok"

\* metadata.name.ok_or(InvalidObj)?, then namespace().ok_or(NoNamespace)?
StartCheck(o) ==
    IF o.name = None THEN "InvalidObj"
    ELSE IF o.namespace = None THEN "NoNamespace"
    ELSE "Ok"

InstanceOf(o) == IF IsSome(o.name) THEN Unwrap(o.name) ELSE ""
NamespaceOf(o) == IF IsSome(o.namespace) THEN Unwrap(o.namespace) ELSE ""

\* A slip: the probe's error is dropped (as by .ok().flatten()) instead of
\* returned by `?`.
ProbeFoundIgnoringError(net, slot) ==
    IF net = "ok" THEN [kind |-> "Ok", found |-> IsSome(slot)]
    ELSE [kind |-> "Ok", found |-> FALSE]

\* api.get_opt(..).await? : Ok(Some(_)) / Ok(None) by what the cluster holds,
\* or the cluster-API error.
ProbeFound(net, slot) ==
    IF net = "ok" THEN [kind |-> "Ok", found |-> IsSome(slot)]
    ELSE [kind |-> "Err", found |-> FALSE]

\* Slips: both branches create; the branches are swapped.
MutatingCallAlwaysCreate(found) == "create"
MutatingCallSwapped(found) == IF found THEN "create" ELSE "patch"

\* if let Some(_) = get_opt(..) { patch } else { create }
MutatingCall(found) == IF found THEN "patch" ELSE "create"

ParamsOf(op) == IF op = "patch" THEN PatchParamsApply ELSE PostParamsDefault

\* One entry of the call log. answer: "ok", "conflict" (409 AlreadyExists) or
\* "error" (no answer arrived); found: what an answered get_opt returned.
Call(op, o, manifest, answer, found) ==
    [run |-> run, op |-> op, name |-> ResourceName(InstanceOf(o)),
     namespace |-> NamespaceOf(o), manifest |-> manifest,
     params |-> IF op = "get_opt" THEN PostParamsDefault ELSE ParamsOf(op),
     answer |-> answer, found |-> found]

\* What the cluster does with a mutating call that reaches it.
Served(op, slot, m) ==
    IF op = "patch" THEN [ok |-> TRUE, slot |-> Applied(slot, m)]
    ELSE IF slot = None THEN [ok |-> TRUE, slot |-> Created(m)]
    ELSE [ok |-> FALSE, slot |-> slot]

Finish(kind, err, slot) ==
    /\ pc' = "done"
    /\ result' = Returned(kind, err, slot)
    /\ afterFirst' = IF kind = "Ok" /\ afterFirst = None THEN Some(slot) ELSE afterFirst

\* Lines 18-23: the name and namespace checks.
reconcile_start ==
    /\ pc = "start"
    /\ IF StartCheck(obj) = "Ok"
       THEN /\ pc' = "probe"
            /\ UNCHANGED <<result, afterFirst>>
       ELSE Finish("Err", StartCheck(obj), cluster)
    /\ UNCHANGED <<obj, probed, cluster, log, run, extWrites, envVars, apiVars>>

\* Line 26: api.get_opt("authentik-<instance>").await?
reconcile_probe ==
    /\ pc = "probe"
    /\ \E net \in {"ok", "err"} :
        LET res == ProbeFound(net, cluster) IN
        /\ log' = Append(log, Call("get_opt", obj, None,
                                    IF net = "ok" THEN "ok" ELSE "error",
                                    IF net = "ok" THEN Some(IsSome(cluster)) ELSE None))
        /\ IF res.kind = "Ok"
           THEN /\ pc' = "apply"
                /\ probed' = Some(res.found)
                /\ UNCHANGED <<result, afterFirst>>
           ELSE /\ Finish("Err", "KubeError", cluster)
                /\ UNCHANGED probed
    /\ UNCHANGED <<obj, cluster, run, extWrites, envVars, apiVars>>

\* Lines 27-35: build(..)? is evaluated as the argument of the call, then the
\* call is issued and awaited. net: the call is served and answered ("ok"),
\* never reaches the cluster ("refused"), or is served but its answer is lost
\* ("lost").
reconcile_apply ==
    /\ pc = "apply"
    /\ LET b == build(InstanceOf(obj), obj)
           op == MutatingCall(Unwrap(probed)) IN
       \/ /\ b.kind = "Panic"
          /\ Finish("Panic", "Failed to get UID of Authentik.", cluster)
          /\ UNCHANGED <<log, cluster>>
       \/ /\ b.kind = "Err"
          /\ Finish("Err", "SerdeError", cluster)
          /\ UNCHANGED <<log, cluster>>
       \/ /\ b.kind = "Ok"
          /\ \E net \in {"ok", "refused", "lost"} :
                LET served == IF net = "refused"
                              THEN [ok |-> FALSE, slot |-> cluster]
                              ELSE Served(op, cluster, Unwrap(b.val))
                    ok == served.ok /\ net = "ok" IN
                /\ cluster' = served.slot
                /\ log' = Append(log, Call(op, obj, b.val,
                                            IF ok THEN "ok"
                                            ELSE IF net = "ok" THEN "conflict"
                                            ELSE "error", None))
                /\ IF ok THEN Finish("Ok", "", served.slot)
                         ELSE Finish("Err", "KubeError", served.slot)
    /\ UNCHANGED <<obj, probed, run, extWrites, envVars, apiVars>>

\* The external trigger invokes reconcile again on the same object.
Trigger ==
    /\ pc = "done"
    /\ run < MaxRuns
    /\ run' = run + 1
    /\ pc' = "start"
    /\ result' = Running
    /\ probed' = None
    /\ UNCHANGED <<obj, cluster, log, extWrites, afterFirst, envVars, apiVars>>

\* Other writers: somebody creates, deletes or rescales the Deployment.
ExtCreate ==
    /\ extWrites < MaxExtWrites
    /\ cluster = None
    /\ IsSome(obj.name)
    /\ cluster' = Some([manifest |-> ForeignDeployment(ResourceName(InstanceOf(obj))),
                        foreign |-> {"annotations"}])
    /\ extWrites' = extWrites + 1
    /\ UNCHANGED <<obj, pc, result, probed, log, run, afterFirst, envVars, apiVars>>

ExtDelete ==
    /\ extWrites < MaxExtWrites
    /\ IsSome(cluster)
    /\ cluster' = None
    /\ extWrites' = extWrites + 1
    /\ UNCHANGED <<obj, pc, result, probed, log, run, afterFirst, envVars, apiVars>>

ExtScale ==
    /\ extWrites < MaxExtWrites
    /\ IsSome(cluster)
    /\ Unwrap(cluster).manifest.spec.replicas # 3
    /\ cluster' = Some([Unwrap(cluster) EXCEPT !.manifest.spec.replicas = 3])
    /\ extWrites' = extWrites + 1
    /\ UNCHANGED <<obj, pc, result, probed, log, run, afterFirst, envVars, apiVars>>

Objects ==
    [name : {None, Some("prod")}, namespace : {None, Some("default")},
     uid : {None, Some("uid-1")}, spec : ReconcileSpecs]

EnvIdle == env = <<>> /\ envDone = FALSE
ApiIdle ==
    /\ flows = {} /\ stages = {} /\ accounts = {}
    /\ requests = <<>> /\ last = None /\ achieved = {}
ReconcileIdle ==
    /\ pc = "idle" /\ result = Running /\ probed = None /\ cluster = None
    /\ log = <<>> /\ run = 0 /\ extWrites = 0 /\ afterFirst = None

Init ==
    /\ obj \in Objects
    /\ pc = "start"
    /\ result = Running
    /\ probed = None
    /\ cluster \in {None} \cup
         {Some([manifest |-> ForeignDeployment(ResourceName(InstanceOf(obj))),
                foreign |-> {"annotations"}])}
    /\ log = <<>>
    /\ run = 1
    /\ extWrites = 0
    /\ afterFirst = None
    /\ EnvIdle
    /\ ApiIdle

Next ==
    \/ reconcile_start
    \/ reconcile_probe
    \/ reconcile_apply
    \/ Trigger
    \/ ExtCreate
    \/ ExtDelete
    \/ ExtScale

Spec == Init /\ [][Next]_vars

----------------------------------------------------------------------------
(* Remote Operation Client: DeleteFlow, DeleteStage, CreateServiceAccount. *)

Slugs == {"login", "my flow"}
AccountNames == {"bot", "ci"}

\* urlencoding::encode on the slugs of the model.
Encode(slug) == IF slug = "my flow" THEN "my%20flow" ELSE slug

\* hyper::StatusCode constants the routes match on, and StatusCode's Display
\* ("<code> <canonical reason>").
NO_CONTENT == 204
NOT_FOUND == 404
BAD_REQUEST == 400

StatusCodes == {200, 201, NO_CONTENT, BAD_REQUEST, 403, NOT_FOUND, 500}

StatusDisplay(code) ==
    ToString(code) \o " " \o
        CASE code = 200 -> "OK"
          [] code = 201 -> "Created"
          [] code = NO_CONTENT -> "No Content"
          [] code = BAD_REQUEST -> "Bad Request"
          [] code = 403 -> "Forbidden"
          [] code = NOT_FOUND -> "Not Found"
          [] OTHER -> "Internal Server Error"

IsSuccess(code) == 200 <= code /\ code < 300

ApiOk(val) == [kind |-> "Ok", detail |-> "", val |-> val]
ApiErr(kind, detail) == [kind |-> kind, detail |-> detail, val |-> None]

\* A slip: every 2xx status is taken as success.
DeleteStageClassifyAny2xx(code) ==
    IF IsSuccess(code) THEN ApiOk(None)
    ELSE IF code = NOT_FOUND THEN ApiErr("NotFound", "")
    ELSE ApiErr("Unknown", "Invalid status code " \o StatusDisplay(code))

\* A slip: a missing flow is taken as deleted.
DeleteFlowClassifyLenient(code) ==
    IF code = NO_CONTENT \/ code = NOT_FOUND THEN ApiOk(None)
    ELSE ApiErr("Unknown", "Invalid status code " \o StatusDisplay(code))

\* flow/delete.rs: match res.status()
DeleteFlowClassify(code) ==
    IF code = NO_CONTENT THEN ApiOk(None)
    ELSE IF code = NOT_FOUND THEN ApiErr("NotFound", "")
    ELSE ApiErr("Unknown", "Invalid status code " \o StatusDisplay(code))

\* stages/delete.rs: match res.status()
DeleteStageClassify(code) ==
    IF code = NO_CONTENT THEN ApiOk(None)
    ELSE IF code = NOT_FOUND THEN ApiErr("NotFound", "")
    ELSE ApiErr("Unknown", "Invalid status code " \o StatusDisplay(code))

DeleteFlowPath(slug) == "/api/v3/flows/instances/" \o Encode(slug) \o "/"
DeleteStagePath(slug) == "/api/v3/stages/all/" \o Encode(slug) \o "/"
ServiceAccountPath == "/api/v3/core/users/service_account/"

\* Response bodies: a JSON object (its fields) or bytes that are not JSON.
RequiredFields == {"username", "user_uid", "user_pk", "token"}
AccountJson(name) ==
    ("username" :> name) @@ ("user_uid" :> "u1") @@ ("user_pk" :> "5")
        @@ ("token" :> "abc")
Without(f, k) == [x \in DOMAIN f \ {k} |-> f[x]]
Bodies(name) ==
    { [json |-> TRUE, fields |-> AccountJson(name)],
      [json |-> TRUE, fields |-> AccountJson(name) @@ ("extra_field" :> "x")],
      [json |-> TRUE, fields |-> Without(AccountJson(name), "token")],
      [json |-> FALSE, fields |-> ("raw" :> "<html>")] }

\* serde_json::from_slice::<CreateServiceAccountResponse>: unknown fields are
\* ignored, a missing required field or malformed JSON is an error.
from_slice(body) ==
    IF body.json /\ RequiredFields \subseteq DOMAIN body.fields
    THEN ApiOk(Some([k \in RequiredFields |-> body.fields[k]]))
    ELSE ApiErr("RequestError", "SerializeError")

\* api.send(..).await? : an Err from the transport becomes RequestError.
TransportFailed(net) == net \in {"refused", "lost"}

\* user.rs: send, after the response has arrived. net = "stream": the status
\* line arrived, reading the body fails.
CreateServiceAccountResult(net, code, body) ==
    IF code = BAD_REQUEST THEN ApiErr("ExistsError", "")
    ELSE IF net = "stream" THEN ApiErr("RequestError", "StreamError")
    ELSE from_slice(body)

(* The authentik server. A regular answer to DELETE is 204 (the object      *)
(* existed and is removed) or 404; to the POST it is 201 (the account is    *)
(* created) or 400 (it exists). Any other status is a fault that changes    *)
(* nothing.                                                                 *)
Faults == {200, 403, 500}
DeleteStatuses(exists) == (IF exists THEN {NO_CONTENT} ELSE {NOT_FOUND}) \cup Faults
CreateStatuses(exists) == (IF exists THEN {BAD_REQUEST} ELSE {201}) \cup Faults

Invocation(route, arg, net, code, body, res) ==
    Some([route |-> route, arg |-> arg, net |-> net,
          status |-> IF TransportFailed(net) THEN None ELSE Some(code),
          body |-> body, result |-> res,
          retry |-> <<route, arg>> \in achieved])

Request(method, path, body) == [method |-> method, path |-> path, body |-> body]

DeleteFlow_send ==
    \E slug \in Slugs, net \in {"ok", "refused", "lost"} :
    \E code \in DeleteStatuses(slug \in flows) :
        LET served == net # "refused" /\ code = NO_CONTENT IN
        /\ requests' = << Request("DELETE", DeleteFlowPath(slug), None) >>
        /\ flows' = IF served THEN flows \ {slug} ELSE flows
        /\ achieved' = IF served THEN achieved \cup {<<"DeleteFlow", slug>>} ELSE achieved
        /\ last' = Invocation("DeleteFlow", slug, net, code, None,
                      IF TransportFailed(net)
                      THEN ApiErr("RequestError", "ConnectionError")
                      ELSE DeleteFlowClassify(code))
        /\ UNCHANGED <<stages, accounts, obj, reconcileVars, envVars>>

DeleteStage_send ==
    \E slug \in Slugs, net \in {"ok", "refused", "lost"} :
    \E code \in DeleteStatuses(slug \in stages) :
        LET served == net # "refused" /\ code = NO_CONTENT IN
        /\ requests' = << Request("DELETE", DeleteStagePath(slug), None) >>
        /\ stages' = IF served THEN stages \ {slug} ELSE stages
        /\ achieved' = IF served THEN achieved \cup {<<"DeleteStage", slug>>} ELSE achieved
        /\ last' = Invocation("DeleteStage", slug, net, code, None,
                      IF TransportFailed(net)
                      THEN ApiErr("RequestError", "ConnectionError")
                      ELSE DeleteStageClassify(code))
        /\ UNCHANGED <<flows, accounts, obj, reconcileVars, envVars>>

CreateServiceAccount_send ==
    \E name \in AccountNames, net \in {"ok", "refused", "lost", "stream"} :
    \E code \in CreateStatuses(name \in accounts), body \in Bodies(name) :
        LET served == net # "refused" /\ code = 201
            sent == Some([name |-> name, create_group |-> TRUE]) IN
        /\ requests' = << Request("POST", ServiceAccountPath, sent) >>
        /\ accounts' = IF served THEN accounts \cup {name} ELSE accounts
        /\ achieved' = IF served THEN achieved \cup {<<"CreateServiceAccount", name>>}
                                 ELSE achieved
        /\ last' = Invocation("CreateServiceAccount", name, net, code, Some(body),
                      IF TransportFailed(net)
                      THEN ApiErr("RequestError", "ConnectionError")
                      ELSE CreateServiceAccountResult(net, code, body))
        /\ UNCHANGED <<flows, stages, obj, reconcileVars, envVars>>

IdleObject ==
    [name |-> None, namespace |-> None, uid |-> None,
     spec |-> CHOOSE s \in AuthentikSpecs : TRUE]

InitApi ==
    /\ obj = IdleObject
    /\ ReconcileIdle
    /\ EnvIdle
    /\ flows = {"login"}
    /\ stages = {"my flow"}
    /\ accounts = {"bot"}
    /\ requests = <<>>
    /\ last = None
    /\ achieved = {}

NextApi ==
    \/ DeleteFlow_send
    \/ DeleteStage_send
    \/ CreateServiceAccount_send

SpecApi == InitApi /\ [][NextApi]_vars

----------------------------------------------------------------------------
(* The Environment Assembler run on every instance spec.                   *)

AssembleEnv ==
    /\ ~envDone
    /\ env' = build_env(obj.spec)
    /\ envDone' = TRUE
    /\ UNCHANGED <<obj, reconcileVars, apiVars>>

InitEnv ==
    /\ obj \in [name : {Some("prod")}, namespace : {Some("default")},
                uid : {Some("uid-1")}, spec : AuthentikSpecs]
    /\ ReconcileIdle
    /\ ApiIdle
    /\ EnvIdle

NextEnv == AssembleEnv

SpecEnv == InitEnv /\ [][NextEnv]_vars

----------------------------------------------------------------------------
(* Properties of reconcile (checked under Spec).                           *)

Mutating(c) == c.op \in {"create", "patch"}
RunCalls(r) == SelectSeq(log, LAMBDA c : c.run = r)
MutatingCalls(r) == SelectSeq(log, LAMBDA c : c.run = r /\ Mutating(c))
Probes(r) == SelectSeq(log, LAMBDA c : c.run = r /\ c.op = "get_opt")
Done == pc = "done"
Successes == {i \in DOMAIN log : Mutating(log[i]) /\ log[i].answer = "ok"}

\* C1: for an instance with a name and a namespace, a mutating call is only
\* issued right after an answered probe of Deployment "authentik-<instance>"
\* in the instance's namespace; it is create with the built manifest when the
\* probe found nothing and a forced apply patch under field manager
\* "authentik.ak-operator" when the probe found the resource; a run whose probe
\* was answered and whose manifest was built issues exactly one mutating call;
\* and when reconcile returns Ok the resource is present in the cluster.
C1_CreateOrPatch ==
    /\ \A i \in DOMAIN log :
          /\ log[i].name = "authentik-" \o Unwrap(obj.name)
          /\ log[i].namespace = Unwrap(obj.namespace)
          /\ Mutating(log[i]) =>
                /\ i > 1
                /\ log[i-1].run = log[i].run
                /\ log[i-1].op = "get_opt"
                /\ log[i-1].answer = "ok"
                /\ log[i].op = "create" <=> log[i-1].found = Some(FALSE)
                /\ log[i].op = "patch" <=> log[i-1].found = Some(TRUE)
                /\ log[i].manifest = build(Unwrap(obj.name), obj).val
                /\ log[i].op = "patch" =>
                      /\ log[i].params.force
                      /\ log[i].params.field_manager = Some("authentik.ak-operator")
    /\ (Done /\ IsSome(probed) /\ build(InstanceOf(obj), obj).kind = "Ok")
          => Len(MutatingCalls(run)) = 1
    /\ (Done /\ result.kind = "Ok")
          => /\ result.present
             /\ Len(Probes(run)) = 1
             /\ Len(MutatingCalls(run)) = 1

\* A run has created the Deployment and a later run has patched it.
C1_Witness ==
    /\ Done /\ result.kind = "Ok"
    /\ \E i, j \in DOMAIN log :
          /\ i < j
          /\ log[i].op = "create" /\ log[i].answer = "ok"
          /\ log[j].op = "patch" /\ log[j].answer = "ok"

C3_MissingUidIsInvalidObj ==
    (Done /\ obj.uid = None /\ IsSome(probed))
       => /\ result.kind = "Err"
          /\ result.err = "InvalidObj"
          /\ MutatingCalls(run) = <<>>

\* C8: with no other writer, once a run of reconcile has succeeded the
\* cluster stays in the state that run left, however often reconcile is
\* repeated on the unchanged object; every later run that gets to its
\* mutating call takes the Present branch and issues the forced apply with
\* the manifest of the first successful call.
C8_Idempotent ==
    (extWrites = 0 /\ Successes # {}) =>
       LET first == CHOOSE i \in Successes : \A k \in Successes : i <= k IN
       /\ IsSome(afterFirst) => cluster = Unwrap(afterFirst)
       /\ IsSome(cluster)
       /\ Unwrap(cluster).manifest = Unwrap(log[first].manifest)
       /\ \A j \in DOMAIN log :
             (j > first /\ Mutating(log[j])) =>
                /\ log[j].op = "patch"
                /\ log[j].params = PatchParamsApply
                /\ log[j].manifest = log[first].manifest
                /\ log[j].name = log[first].name

\* Three runs in a row have succeeded with no other writer.
C8_Witness ==
    /\ extWrites = 0
    /\ Done /\ result.kind = "Ok"
    /\ Cardinality(Successes) >= 3
    /\ \E i \in Successes : log[i].op = "create"

\* C10: every run issues at most one probe and at most one of create and
\* patch, the probe first; a call that fails is the last call of its run: after
\* a failed probe no create or patch follows, and after a failed create or
\* patch the run returns the cluster-API error.
C10_StopsAtFirstError ==
    /\ \A r \in 1..run :
          LET cs == RunCalls(r) IN
          /\ Len(Probes(r)) <= 1
          /\ Len(MutatingCalls(r)) <= 1
          /\ Len(cs) >= 1 => cs[1].op = "get_opt"
          /\ (Len(cs) >= 1 /\ cs[1].answer # "ok") => Len(cs) = 1
          /\ (Len(cs) >= 1 /\ cs[Len(cs)].answer # "ok") =>
                (r = run => (Done /\ result.kind = "Err" /\ result.err = "KubeError"))
    /\ \A i \in DOMAIN log :
          (log[i].answer # "ok" /\ i < Len(log)) => log[i+1].run > log[i].run

\* A create was rejected because the resource appeared after an Absent probe.
C10_Witness ==
    /\ Done /\ result.kind = "Err" /\ result.err = "KubeError"
    /\ Len(RunCalls(run)) = 2
    /\ RunCalls(run)[1].found = Some(FALSE)
    /\ RunCalls(run)[2].op = "create"
    /\ RunCalls(run)[2].answer = "conflict"

----------------------------------------------------------------------------
(* Properties of build_env (checked under SpecEnv).                        *)

PasswordEntries == {i \in DOMAIN env : env[i].name = "AUTHENTIK_POSTGRESQL__PASSWORD"}

\* C4: every entry build_env returns has exactly one of {literal value,
\* secret reference} set, for every instance spec, also one without a secret
\* key.
C4_ExactlyOneOfValueOrRef ==
    envDone =>
       \A i \in DOMAIN env : IsSome(env[i].value) # IsSome(env[i].value_from)

\* C5: build_env emits exactly one AUTHENTIK_POSTGRESQL__PASSWORD entry; it
\* is a secret reference (secret name, key, no literal) if and only if the spec
\* supplies both a password secret name and a password secret key, and
\* otherwise a literal carrying the plain password; the secret reference wins
\* over the literal password when both are supplied.
C5_PasswordEntry ==
    envDone =>
       /\ Cardinality(PasswordEntries) = 1
       /\ \A i \in PasswordEntries :
             LET pg == obj.spec.postgres
                 both == pg.password_secret # None /\ pg.password_secret_key # None IN
             /\ both <=> env[i].value_from # None
             /\ both =>
                   /\ env[i].value = None
                   /\ Unwrap(Unwrap(env[i].value_from).secret_key_ref).name
                         = pg.password_secret
                   /\ Unwrap(Unwrap(env[i].value_from).secret_key_ref).key
                         = Unwrap(pg.password_secret_key)
             /\ ~both =>
                   /\ env[i].value = Some(pg.password)
                   /\ env[i].value_from = None

\* A spec with a literal password and a full secret reference has been assembled.
C5_Witness ==
    /\ envDone
    /\ obj.spec.postgres.password = "plain"
    /\ obj.spec.postgres.password_secret = Some("pg-secret")
    /\ obj.spec.postgres.password_secret_key = Some("pw")
    /\ \E i \in PasswordEntries : env[i].value = None /\ env[i].value_from # None

----------------------------------------------------------------------------
(* Properties of the remote operations (checked under SpecApi).            *)

Invoked(route) == last # None /\ Unwrap(last).route = route
Answered == Unwrap(last).net \in {"ok", "stream"}
LastStatus == Unwrap(Unwrap(last).status)
LastResult == Unwrap(last).result

\* C6: create service account classifies by status: a 2xx status leads to
\* decoding the body, 400 yields ExistsError, and every other non-2xx status
\* yields RequestError, never a success, whatever the body holds.
C6_NonSuccessStatusIsNeverOk ==
    (Invoked("CreateServiceAccount") /\ Answered) =>
       /\ (LastStatus >= 200 /\ LastStatus < 300 /\ Unwrap(last).net = "ok")
             => LastResult = from_slice(Unwrap(Unwrap(last).body))
       /\ LastStatus = 400 => LastResult.kind = "ExistsError"
       /\ (LastStatus \notin 200..299 /\ LastStatus # 400)
             => LastResult.kind = "RequestError"

\* C7: delete flow and delete stage each send exactly one DELETE request to
\* their path; 204 yields Ok(()), 404 yields NotFound, every other received
\* status (200 too) yields Unknown carrying that status, no response yields
\* RequestError; both routes classify every status alike.
C7_DeleteClassification ==
    /\ \A route \in {"DeleteFlow", "DeleteStage"} :
          Invoked(route) =>
             /\ Len(requests) = 1
             /\ requests[1].method = "DELETE"
             /\ requests[1].path =
                   (IF route = "DeleteFlow" THEN "/api/v3/flows/instances/"
                                            ELSE "/api/v3/stages/all/")
                      \o Encode(Unwrap(last).arg) \o "/"
             /\ Unwrap(last).status = None => LastResult.kind = "RequestError"
             /\ Unwrap(last).status # None =>
                   /\ LastStatus = 204 => LastResult.kind = "Ok"
                   /\ LastStatus = 404 => LastResult.kind = "NotFound"
                   /\ LastStatus \notin {204, 404} =>
                         /\ LastResult.kind = "Unknown"
                         /\ LastResult.detail
                               = "Invalid status code " \o StatusDisplay(LastStatus)
    /\ \A code \in StatusCodes :
          DeleteFlowClassify(code).kind = DeleteStageClassify(code).kind

\* Delete stage has received 200 and returned Unknown.
C7_Witness ==
    /\ Invoked("DeleteStage")
    /\ Unwrap(last).status = Some(200)
    /\ LastResult.kind = "Unknown"

RegularAnswer == Unwrap(last).net = "ok" /\ LastStatus \notin Faults
ServedState ==
    /\ \A s \in Slugs : <<"DeleteFlow", s>> \in achieved => s \notin flows
    /\ \A s \in Slugs : <<"DeleteStage", s>> \in achieved => s \notin stages
    /\ \A n \in AccountNames : <<"CreateServiceAccount", n>> \in achieved => n \in accounts

\* C9 as stated: re-invoking an operation the server has already served (its
\* answer received or lost) leaves the platform in the state of the single
\* served invocation, and the re-invocation, regularly answered, does not
\* turn the achieved outcome into an error.
C9_RetryKeepsOutcome ==
    /\ ServedState
    /\ (last # None /\ Unwrap(last).retry /\ RegularAnswer) => LastResult.kind = "Ok"

\* C9 as amended: re-invoking delete flow, delete stage or create service
\* account after the server has served it leaves the platform in the state of
\* the single served invocation, but the re-invocation, regularly answered,
\* returns an error: NotFound for the deletes, ExistsError for the create.
C9_RetryKeepsStateButErrs ==
    /\ ServedState
    /\ (last # None /\ Unwrap(last).retry /\ RegularAnswer) =>
          LastResult.kind =
             (IF Unwrap(last).route = "CreateServiceAccount" THEN "ExistsError"
                                                              ELSE "NotFound")

\* Delete flow has been re-invoked after the flow was deleted, and answered 404.
C9_Witness ==
    /\ Invoked("DeleteFlow")
    /\ Unwrap(last).retry
    /\ Unwrap(last).status = Some(404)
    /\ Unwrap(last).arg \notin flows

====
